---- MODULE Spec2Model ----
\* A model of the streaming JSON tokenizer of
\* src/examples/media-session/json.h: the scan cursor (spa_json_next),
\* container entry (spa_json_enter, spa_json_enter_container), the span
\* classifiers (spa_json_is_null, ...) and the conversions
\* (spa_json_parse_float, ..., spa_json_get_string).
\*
\* Bytes are integers 0..255.  Positions are 0-based offsets into the
\* buffer, so the C pointer iter->cur is the offset cur and iter->end is
\* Len(buf).  A cursor is referred to by an index 1..MaxCursors; the C
\* pointer iter->parent is the index of the parent, 0 for NULL.
EXTENDS Integers, Sequences, FiniteSets, TLC

\* ---------------------------------------------------------------- bounds
MaxLen == 4
MaxCursors == 2
MaxWrites == 2

\* ------------------------------------------------------- program constants
__NONE == 0
__STRUCT == 1
__BARE == 2
__STRING == 3
__UTF8 == 4
__ESC == 5

\* bytes
TAB == 9
LF == 10
CR == 13
BS == 8
SP == 32
QUOTE == 34
COMMA == 44
MINUS == 45
SLASH == 47
COLON == 58
LBRACKET == 91
BACKSLASH == 92
RBRACKET == 93
LBRACE == 123
RBRACE == 125

\* A caller's `const char *value` that has not been assigned yet.
NoValue == -1

ByteAt(b, i) == IF i >= 0 /\ i < Len(b) THEN b[i + 1] ELSE 0

IsLower(c) == c >= 97 /\ c <= 122
IsUpper(c) == c >= 65 /\ c <= 90
IsDigit(c) == c >= 48 /\ c <= 57

\* ------------------------------------------------------------ the cursor
\* struct spa_json
Cursor(cur, end, parent, state, depth) ==
    [cur |-> cur, end |-> end, parent |-> parent, state |-> state, depth |-> depth]

SPA_JSON_INIT(size) == Cursor(0, size, 0, __NONE, 0)

\* SPA_JSON_ENTER, were the child a copy of the parent's scan state.
SPA_JSON_ENTER_CopiesState(iter, id) == Cursor(iter.cur, iter.end, id, iter.state, iter.depth)

SPA_JSON_ENTER(iter, id) == Cursor(iter.cur, iter.end, id, __NONE, 0)

\* The outcome of one spa_json_next call: the cursor afterwards, the return
\* value, the caller's *value afterwards, whether iter->parent->cur was
\* assigned (wb) and with what (wbcur).  exit names the return statement taken.
Outcome(it, ret, value, exit, wb) ==
    [it |-> it, ret |-> ret, value |-> value, exit |-> exit, wb |-> wb, wbcur |-> it.cur]

\* Whether the call on cursor it computes `iter->cur - *value` from a *value
\* the caller never assigned.
ReadsUnassigned(o) == o.value = NoValue /\ o.exit \in {"bare", "string"}

\* AtEnd, were the end of the buffer always a clean end of scope.
AtEnd_AlwaysEndOfScope(it, value) == Outcome(it, 0, value, "end", FALSE)

\* AtEnd, were the end of the buffer to propagate the position like a closing
\* delimiter does.
AtEnd_WritesBack(it, value) ==
    Outcome(it, IF it.depth = 0 THEN 0 ELSE -1, value, "end", it.parent # 0 /\ it.depth = 0)

\* `return iter->depth == 0 ? 0 : -1;` after the loop: the parent is not touched.
AtEnd(it, value) == Outcome(it, IF it.depth = 0 THEN 0 ELSE -1, value, "end", FALSE)

\* AtClose, were the position past the delimiter the one propagated.
AtClose_PastDelimiter(it, value) ==
    [Outcome(it, 0, value, "close", it.parent # 0) EXCEPT !.wbcur = it.cur + 1]

\* A closing delimiter met at depth 0: `if (iter->parent) iter->parent->cur =
\* iter->cur; return 0;` with iter->cur still at the delimiter.
AtClose(it, value) == Outcome(it, 0, value, "close", it.parent # 0)

\* the bytes the Struct state skips (line 74)
StructSkips == {TAB, SP, CR, LF, COLON, COMMA}

\* BareEnds, were a closing delimiter not to end a bare token.
BareEnds_NoClosers == {TAB, SP, CR, LF, COLON, COMMA}

\* the bytes that end a bare token (lines 102-103)
BareEnds == {TAB, SP, CR, LF, COLON, COMMA, RBRACKET, RBRACE}

\* the bytes accepted after a backslash (lines 149-150): " \ / b f n r t u
EscapeBytes == {QUOTE, BACKSLASH, SLASH, 98, 102, 110, 114, 116, 117}

\* IsNested, were every opening delimiter reported.
IsNested_Never(d) == FALSE

\* `if (++iter->depth > 1) continue;`: the opening delimiter lies inside a
\* container this cursor is skipping.
IsNested(d) == d > 1

\* Swallowing, were every string and bare token returned.
Swallowing_Never(it) == FALSE

\* `if (iter->depth > 0)` at the end of a string or bare token: the token lies
\* inside a container this cursor is skipping.
Swallowing(it) == it.depth > 0

\* Utf8Lead, were the four-byte lead bytes not accepted.
Utf8Lead_NoFourByte(cur) ==
    IF cur >= 224 /\ cur <= 239 THEN 2
    ELSE IF cur >= 192 /\ cur <= 223 THEN 1
    ELSE 0

\* The cases 240 ... 247, 224 ... 239 and 192 ... 223 of the String state,
\* which fall through one into the next: how many times `utf8_remain++` runs
\* for the byte cur (0: the byte is none of these cases).
Utf8Lead(cur) ==
    IF cur >= 240 /\ cur <= 247 THEN 3
    ELSE IF cur >= 224 /\ cur <= 239 THEN 2
    ELSE IF cur >= 192 /\ cur <= 223 THEN 1
    ELSE 0

\* The three ways one iteration of the for loop ends: `continue` (the loop
\* goes on at cur + 1), `goto again` (the same byte is examined again) and
\* `return` (with outcome o).
Continue(it, utf8_remain, value) ==
    [done |-> FALSE, it |-> [it EXCEPT !.cur = @ + 1], utf8_remain |-> utf8_remain,
     value |-> value, o |-> Outcome(it, 0, value, "none", FALSE)]

Again(it, utf8_remain, value) ==
    [done |-> FALSE, it |-> it, utf8_remain |-> utf8_remain,
     value |-> value, o |-> Outcome(it, 0, value, "none", FALSE)]

Return(o) ==
    [done |-> TRUE, it |-> o.it, utf8_remain |-> 0, value |-> o.value, o |-> o]

\* depth is a uint32_t: it is incremented at most once per byte, so it stays
\* below Len(b) + 1 and never wraps on the buffers of the model; it is
\* decremented only when it is not 0.
\* One pass through the switch of spa_json_next for the byte at it.cur, from
\* the label `again`.  garbage is what `iter->cur - *value` evaluates to when
\* *value was never assigned by the caller.
Step(b, it, utf8_remain, value, garbage) ==
    LET cur == ByteAt(b, it.cur)
        Length(v) == IF v = NoValue THEN garbage ELSE it.cur - v
    IN
    CASE it.state = __NONE ->
            Again([it EXCEPT !.state = __STRUCT, !.depth = 0], utf8_remain, value)
      [] it.state = __STRUCT ->
            IF cur \in StructSkips
            THEN Continue(it, utf8_remain, value)
            ELSE IF cur = QUOTE
            THEN Continue([it EXCEPT !.state = __STRING], utf8_remain, it.cur)
            ELSE IF cur \in {LBRACKET, LBRACE}
            THEN LET d == it.depth + 1 IN
                 IF IsNested(d)
                 THEN Continue([it EXCEPT !.depth = d], utf8_remain, it.cur)
                 ELSE Return(Outcome([it EXCEPT !.depth = d, !.cur = it.cur + 1], 1, it.cur,
                                     "container", FALSE))
            ELSE IF cur \in {RBRACE, RBRACKET}
            THEN IF it.depth = 0
                 THEN Return(AtClose(it, value))
                 ELSE Continue([it EXCEPT !.depth = it.depth - 1], utf8_remain, value)
            ELSE IF cur = MINUS \/ IsLower(cur) \/ IsUpper(cur) \/ IsDigit(cur)
            THEN Continue([it EXCEPT !.state = __BARE], utf8_remain, it.cur)
            ELSE Return(Outcome(it, -1, value, "error", FALSE))
      [] it.state = __BARE ->
            IF cur \in BareEnds
            THEN IF Swallowing(it)
                 THEN Again([it EXCEPT !.state = __STRUCT], utf8_remain, value)
                 ELSE Return(Outcome([it EXCEPT !.state = __STRUCT], Length(value), value,
                                     "bare", FALSE))
            ELSE IF cur >= 32 /\ cur <= 126
            THEN Continue(it, utf8_remain, value)
            ELSE Return(Outcome(it, -1, value, "error", FALSE))
      [] it.state = __STRING ->
            IF cur = BACKSLASH
            THEN Continue([it EXCEPT !.state = __ESC], utf8_remain, value)
            ELSE IF cur = QUOTE
            THEN IF Swallowing(it)
                 THEN Continue([it EXCEPT !.state = __STRUCT], utf8_remain, value)
                 ELSE Return(Outcome([it EXCEPT !.state = __STRUCT, !.cur = it.cur + 1],
                                     IF value = NoValue THEN garbage ELSE it.cur + 1 - value,
                                     value, "string", FALSE))
            ELSE IF Utf8Lead(cur) > 0
            THEN Continue([it EXCEPT !.state = __UTF8], utf8_remain + Utf8Lead(cur), value)
            ELSE IF cur >= 32 /\ cur <= 126
            THEN Continue(it, utf8_remain, value)
            ELSE Return(Outcome(it, -1, value, "error", FALSE))
      [] it.state = __UTF8 ->
            IF cur >= 128 /\ cur <= 191
            THEN IF utf8_remain - 1 = 0
                 THEN Continue([it EXCEPT !.state = __STRING], utf8_remain - 1, value)
                 ELSE Continue(it, utf8_remain - 1, value)
            ELSE Return(Outcome(it, -1, value, "error", FALSE))
      [] it.state = __ESC ->
            IF cur \in EscapeBytes
            THEN Continue([it EXCEPT !.state = __STRING], utf8_remain, value)
            ELSE Return(Outcome(it, -1, value, "error", FALSE))

\* The for loop of spa_json_next: passes through the switch while
\* iter->cur < iter->end, then the return after the loop.
RECURSIVE NextLoop(_, _, _, _, _)
NextLoop(b, it, utf8_remain, value, garbage) ==
    IF ~(it.cur < it.end)
    THEN AtEnd(it, value)
    ELSE LET s == Step(b, it, utf8_remain, value, garbage) IN
         IF s.done THEN s.o
         ELSE NextLoop(b, s.it, s.utf8_remain, s.value, garbage)

\* int spa_json_next(struct spa_json *iter, const char **value)
spa_json_next(b, it, value, garbage) == NextLoop(b, it, 0, value, garbage)

\* ------------------------------------------------ classification of a span
\* strcmp(val, lit) == 0: the bytes at val equal lit and are followed by NUL.
RECURSIVE StrcmpEq(_, _, _)
StrcmpEq(b, val, lit) ==
    IF lit = <<>>
    THEN ByteAt(b, val) = 0
    ELSE ByteAt(b, val) = Head(lit) /\ StrcmpEq(b, val + 1, Tail(lit))

LitNull == <<110, 117, 108, 108>>
LitTrue == <<116, 114, 117, 101>>
LitFalse == <<102, 97, 108, 115, 101>>

spa_json_is_object(b, val, len) == len > 0 /\ ByteAt(b, val) = LBRACE

spa_json_is_array(b, val, len) == len > 0 /\ ByteAt(b, val) = LBRACKET

spa_json_is_string(b, val, len) == len > 1 /\ ByteAt(b, val) = QUOTE

spa_json_is_null(b, val, len) == len = 4 /\ StrcmpEq(b, val, LitNull)

spa_json_is_true(b, val, len) == len = 4 /\ StrcmpEq(b, val, LitTrue)

spa_json_is_false(b, val, len) == len = 5 /\ StrcmpEq(b, val, LitFalse)

spa_json_is_bool(b, val, len) == spa_json_is_true(b, val, len) \/ spa_json_is_false(b, val, len)

\* strtof(val, &end): the offset `end` at which the decimal floating-point
\* parse stops (val itself when no conversion is performed): isspace bytes,
\* an optional sign, digits with an optional '.', and an exponent only when
\* it has at least one digit.  The hexadecimal and inf/nan forms do not occur
\* in the buffers of this model.
RECURSIVE SkipWhile(_, _, _)
SkipWhile(b, p, set) ==
    IF p < Len(b) /\ ByteAt(b, p) \in set THEN SkipWhile(b, p + 1, set) ELSE p

Digits == 48..57

StrtofEnd(b, val) ==
    LET p0 == SkipWhile(b, val, {SP, TAB, LF, 11, 12, CR})
        p1 == IF ByteAt(b, p0) \in {43, MINUS} THEN p0 + 1 ELSE p0
        p2 == SkipWhile(b, p1, Digits)
        p3 == IF ByteAt(b, p2) = 46 THEN SkipWhile(b, p2 + 1, Digits) ELSE p2
        ndig == (p2 - p1) + (IF p3 > p2 THEN p3 - p2 - 1 ELSE 0)
        e1 == IF ByteAt(b, p3 + 1) \in {43, MINUS} THEN p3 + 2 ELSE p3 + 1
        e2 == SkipWhile(b, e1, Digits)
    IN IF ndig = 0 THEN val
       ELSE IF ByteAt(b, p3) \in {101, 69} /\ e2 > e1 THEN e2
       ELSE p3

spa_json_is_float(b, val, len) == StrtofEnd(b, val) = val + len

\* ---------------------------------------------------- conversion of a span
\* The float is represented by the text strtof consumed.
spa_json_parse_float(b, val, len) ==
    [ret |-> IF StrtofEnd(b, val) = val + len THEN 1 ELSE 0,
     result |-> SubSeq(b, val + 1, StrtofEnd(b, val))]

spa_json_parse_bool(b, val, len) ==
    IF spa_json_is_true(b, val, len) THEN [ret |-> 1, result |-> TRUE]
    ELSE IF spa_json_is_false(b, val, len) THEN [ret |-> 1, result |-> FALSE]
    ELSE [ret |-> -1, result |-> TRUE]

\* Unescape, were `\f` decoded to a form feed as well.
Unescape_FormFeed(c) ==
    IF c = 110 THEN LF
    ELSE IF c = 114 THEN CR
    ELSE IF c = 98 THEN BS
    ELSE IF c = 116 THEN TAB
    ELSE IF c = 102 THEN 12
    ELSE c

\* the byte written for the byte c that follows a backslash (lines 244-253)
Unescape(c) ==
    IF c = 110 THEN LF
    ELSE IF c = 114 THEN CR
    ELSE IF c = 98 THEN BS
    ELSE IF c = 116 THEN TAB
    ELSE c

\* The for loop of spa_json_parse_string; out is what was written to result.
RECURSIVE ParseStringLoop(_, _, _, _)
ParseStringLoop(b, p, stop, out) ==
    IF ~(p < stop) THEN out
    ELSE IF ByteAt(b, p) = BACKSLASH
    THEN ParseStringLoop(b, p + 2, stop, Append(out, Unescape(ByteAt(b, p + 1))))
    ELSE ParseStringLoop(b, p + 1, stop, Append(out, ByteAt(b, p)))

\* The highest offset the for loop of spa_json_parse_string reads (*p, and the
\* byte after a backslash); hi is the highest read so far.
RECURSIVE ParseStringReads(_, _, _, _)
ParseStringReads(b, p, stop, hi) ==
    IF ~(p < stop) THEN hi
    ELSE IF ByteAt(b, p) = BACKSLASH
    THEN ParseStringReads(b, p + 2, stop, IF p + 1 > hi THEN p + 1 ELSE hi)
    ELSE ParseStringReads(b, p + 1, stop, IF p > hi THEN p ELSE hi)

spa_json_parse_string(b, val, len) ==
    IF ~spa_json_is_string(b, val, len)
    THEN [ret |-> -1, result |-> <<>>]
    ELSE [ret |-> 1, result |-> Append(ParseStringLoop(b, val + 1, val + len - 1, <<>>), 0)]

\* ------------------------------------------------------------- the buffers
\* The bytes the enumerated buffers are made of: [ ] " a , \
Alphabet == {LBRACKET, RBRACKET, QUOTE, 97, COMMA, BACKSLASH}

BoundedBufs == UNION {[1..k -> Alphabet] : k \in 0..MaxLen}

\* true false
BufTrueFalse == <<116, 114, 117, 101, 32, 102, 97, 108, 115, 101>>
\* "abc
BufUnterminated == <<34, 97, 98, 99>>
\* {}
BufEmptyObject == <<123, 125>>
\* [1,2,3]
BufArray == <<91, 49, 44, 50, 44, 51, 93>>
\* {"a":1,"b":[1,2]}
BufObject == <<123, 34, 97, 34, 58, 49, 44, 34, 98, 34, 58, 91, 49, 44, 50, 93, 125>>
\* null,true,false,
BufLiterals == <<110, 117, 108, 108, 44, 116, 114, 117, 101, 44, 102, 97, 108, 115, 101, 44>>
\* [[1],"x"] 2 
BufNested == <<91, 91, 49, 93, 44, 34, 120, 34, 93, 32, 50, 32>>
\* -1.5e3 12x "7" 4
BufNumbers == <<45, 49, 46, 53, 101, 51, 32, 49, 50, 120, 32, 34, 55, 34, 32, 52>>
\* "a\nb\"c" x
BufEscapes == <<34, 97, 92, 110, 98, 92, 34, 99, 34, 32, 120>>
\* "\u00e9\t\r\b\f\/\\" 
BufUnicode == <<34, 92, 117, 48, 48, 101, 57, 92, 116, 92, 114, 92, 98, 92, 102, 92, 47, 92, 92, 34, 32>>
\* ["]\"[","x"] "}{" 
BufBrackets == <<91, 34, 93, 92, 34, 91, 34, 44, 34, 120, 34, 93, 32, 34, 125, 123, 34, 32>>

\* "<C3 A9><E2 82 AC><F0 9F 98 80>" "<E2 82>A" : a string of a 2-, a 3- and a
\* 4-byte sequence, then a
\* string whose 3-byte sequence is cut short by the letter A
BufUtf8 == <<34, 195, 169, 226, 130, 172, 240, 159, 152, 128, 34, 32,
             34, 226, 130, 65, 34>>
\* a string of the first and the last sequence of each length
BufUtf8Bounds == <<34, 192, 128, 223, 191, 224, 128, 128, 239, 191, 191,
                   240, 128, 128, 128, 247, 191, 191, 191, 34, 32>>
\* the bytes of a string that are neither printable ASCII nor a lead byte
BadStringBytes == {0, 9, 31, 127, 128, 191, 248, 255}
\* "a?" and ["?"] for each such byte ?
BufBadStrings == {<<34, 97, c, 34>> : c \in BadStringBytes}
                 \cup {<<91, 34, c, 34, 93>> : c \in BadStringBytes}

\* The bytes of the enumerated strings: a 2-, 3- and 4-byte lead byte, a
\* continuation byte and the quote.
Utf8Alphabet == {195, 226, 240, 128, QUOTE}

\* an opening quote followed by up to MaxLen such bytes
Utf8Bufs == UNION {{<<QUOTE>> \o t : t \in [1..k -> Utf8Alphabet]} : k \in 0..MaxLen}

NamedBufs == {BufBrackets, BufUnicode, BufTrueFalse, BufUnterminated, BufEmptyObject, BufArray, BufObject,
              BufLiterals, BufNested, BufNumbers, BufEscapes, BufUtf8, BufUtf8Bounds}
             \cup BufBadStrings

Buffers == BoundedBufs \cup Utf8Bufs \cup NamedBufs

\* ---------------------------------------------------------------- the state
VARIABLES buf, iter, n, value, writes, last, conv, ended, tokens

vars == <<buf, iter, n, value, writes, last, conv, ended, tokens>>

Ids == 1..MaxCursors

\* a cursor slot that no spa_json_init / spa_json_enter has filled yet
NoCursor == Cursor(0, 0, 0, __NONE, 0)

NoLast == [op |-> "init", id |-> 0, ret |-> 0, len |-> 0, value |-> NoValue,
           exit |-> "none", wb |-> FALSE, arg |-> 0, out |-> <<>>]

NoConv == [op |-> "none", val |-> 0, len |-> 0, ret |-> 0, out |-> <<>>]

\* what an uninitialised `const char *value` may make `iter->cur - *value`
GarbageLens == {-3, 0, 2}

\* the values the call's `iter->cur - *value` can take
Garbage(it, v) == IF ReadsUnassigned(spa_json_next(buf, it, v, 0)) THEN GarbageLens ELSE {0}

\* spa_json_init on a buffer of the model
Init ==
    /\ buf \in Buffers
    /\ iter = [i \in Ids |-> IF i = 1 THEN SPA_JSON_INIT(Len(buf)) ELSE NoCursor]
    /\ n = 1
    /\ value = [i \in Ids |-> NoValue]
    /\ writes = [i \in Ids |-> 0]
    /\ last = NoLast
    /\ conv = NoConv
    /\ ended = [i \in Ids |-> FALSE]
    /\ tokens = [i \in Ids |-> 0]

\* ended[c]: some spa_json_next call on cursor c has returned 0 (history).
Ended(c, o) == IF o.ret = 0 THEN [ended EXCEPT ![c] = TRUE] ELSE ended

\* tokens[c]: how many spa_json_next calls on cursor c have returned a token
\* or a container, that is, a result > 0 (history).
Tokens(c, o) == IF o.ret > 0 THEN [tokens EXCEPT ![c] = @ + 1] ELSE tokens

\* The effect of a spa_json_next call with outcome o on cursor c: the cursor
\* itself, and iter->parent->cur when the call assigned it.
Store(c, o) ==
    /\ o.wb => writes[c] < MaxWrites
    /\ iter' = [i \in Ids |->
                 IF i = c THEN o.it
                 ELSE IF o.wb /\ i = iter[c].parent THEN [iter[i] EXCEPT !.cur = o.wbcur]
                 ELSE iter[i]]
    /\ writes' = IF o.wb THEN [writes EXCEPT ![c] = @ + 1] ELSE writes
    /\ ended' = Ended(c, o)
    /\ tokens' = Tokens(c, o)

\* a caller's loop step: spa_json_next(&iter[c], &value[c])
Next(c) ==
    /\ c <= n
    /\ \E g \in Garbage(iter[c], value[c]) :
         LET o == spa_json_next(buf, iter[c], value[c], g) IN
         /\ Store(c, o)
         /\ value' = [value EXCEPT ![c] = o.value]
         /\ last' = [NoLast EXCEPT !.op = "next", !.id = c, !.ret = o.ret, !.len = o.ret,
                                   !.value = o.value, !.exit = o.exit, !.wb = o.wb]
    /\ conv' = NoConv
    /\ UNCHANGED <<buf, n>>

\* spa_json_enter(&iter[p], &iter[n + 1])
Enter(p) ==
    /\ p <= n
    /\ n < MaxCursors
    /\ iter' = [iter EXCEPT ![n + 1] = SPA_JSON_ENTER(iter[p], p)]
    /\ n' = n + 1
    /\ last' = [NoLast EXCEPT !.op = "enter", !.id = p, !.ret = 1]
    /\ conv' = NoConv
    /\ UNCHANGED <<buf, value, writes, ended, tokens>>

\* spa_json_enter_container(&iter[p], &iter[n + 1], type); `value` is a local
\* of the function, unassigned when spa_json_next returns without setting
\* it, and then `*value != type` may evaluate either way (differs).
EnterContainer(p, type) ==
    /\ p <= n
    /\ n < MaxCursors
    /\ \E g \in Garbage(iter[p], NoValue), differs \in BOOLEAN :
         LET o == spa_json_next(buf, iter[p], NoValue, g)
             mismatch == IF o.value = NoValue THEN differs ELSE ByteAt(buf, o.value) # type
             fail == o.ret < 0 \/ mismatch
         IN
         /\ o.value # NoValue => differs
         /\ o.wb => writes[p] < MaxWrites
         /\ iter' = [i \in Ids |->
                      IF i = p THEN o.it
                      ELSE IF ~fail /\ i = n + 1 THEN SPA_JSON_ENTER(o.it, p)
                      ELSE IF o.wb /\ i = iter[p].parent THEN [iter[i] EXCEPT !.cur = o.wbcur]
                      ELSE iter[i]]
         /\ writes' = IF o.wb THEN [writes EXCEPT ![p] = @ + 1] ELSE writes
         /\ ended' = Ended(p, o)
         /\ tokens' = Tokens(p, o)
         /\ n' = IF fail THEN n ELSE n + 1
         /\ last' = [NoLast EXCEPT !.op = "enter_container", !.id = p,
                                   !.ret = IF fail THEN -1 ELSE 1, !.len = o.ret,
                                   !.value = o.value, !.exit = o.exit, !.wb = o.wb,
                                   !.arg = type]
    /\ conv' = NoConv
    /\ UNCHANGED <<buf, value>>

\* int spa_json_get_float(struct spa_json *iter, float *res): o is the
\* outcome of its spa_json_next call.
spa_json_get_float(b, it, g) ==
    LET o == spa_json_next(b, it, NoValue, g)
        r == spa_json_parse_float(b, o.value, o.ret)
    IN IF o.ret <= 0 THEN [o |-> o, ret |-> -1, result |-> <<>>]
       ELSE [o |-> o, ret |-> r.ret, result |-> r.result]

\* int spa_json_get_bool(struct spa_json *iter, bool *res)
spa_json_get_bool(b, it, g) ==
    LET o == spa_json_next(b, it, NoValue, g)
        r == spa_json_parse_bool(b, o.value, o.ret)
    IN IF o.ret <= 0 THEN [o |-> o, ret |-> -1, result |-> <<>>]
       ELSE [o |-> o, ret |-> r.ret, result |-> <<r.result>>]

\* spa_json_get_string, were maxlen not compared with the token's length.
spa_json_get_string_NoCapacityCheck(b, it, maxlen, g) ==
    LET o == spa_json_next(b, it, NoValue, g)
        r == spa_json_parse_string(b, o.value, o.ret)
    IN IF o.ret <= 0 THEN [o |-> o, ret |-> -1, result |-> <<>>]
       ELSE [o |-> o, ret |-> r.ret, result |-> r.result]

\* int spa_json_get_string(struct spa_json *iter, char *res, int maxlen)
spa_json_get_string(b, it, maxlen, g) ==
    LET o == spa_json_next(b, it, NoValue, g)
        r == spa_json_parse_string(b, o.value, o.ret)
    IN IF o.ret <= 0 \/ maxlen < o.ret THEN [o |-> o, ret |-> -1, result |-> <<>>]
       ELSE [o |-> o, ret |-> r.ret, result |-> r.result]

\* what a combined fetch with result f on cursor c leaves behind
Fetched(c, f, op, arg) ==
    /\ Store(c, f.o)
    /\ last' = [NoLast EXCEPT !.op = op, !.id = c, !.ret = f.ret, !.len = f.o.ret,
                              !.value = f.o.value, !.exit = f.o.exit, !.wb = f.o.wb,
                              !.arg = arg, !.out = f.result]
    /\ conv' = NoConv
    /\ UNCHANGED <<buf, n, value>>

GetFloat(c) ==
    /\ c <= n
    /\ \E g \in Garbage(iter[c], NoValue) :
         Fetched(c, spa_json_get_float(buf, iter[c], g), "get_float", 0)

GetBool(c) ==
    /\ c <= n
    /\ \E g \in Garbage(iter[c], NoValue) :
         Fetched(c, spa_json_get_bool(buf, iter[c], g), "get_bool", 0)

\* the capacities a caller passes to spa_json_get_string
MaxLens == {2, 16}

GetString(c, maxlen) ==
    /\ c <= n
    /\ \E g \in Garbage(iter[c], NoValue) :
         Fetched(c, spa_json_get_string(buf, iter[c], maxlen, g), "get_string", maxlen)

\* The span the last spa_json_next call of the caller returned.
HasSpan == last.op = "next" /\ last.ret > 0

\* the spa_json_is_* predicates applied to the span just returned
Classify ==
    /\ HasSpan
    /\ conv' = [NoConv EXCEPT !.op = "classify", !.val = last.value, !.len = last.ret,
                  !.out = <<spa_json_is_object(buf, last.value, last.ret),
                            spa_json_is_array(buf, last.value, last.ret),
                            spa_json_is_float(buf, last.value, last.ret),
                            spa_json_is_string(buf, last.value, last.ret),
                            spa_json_is_null(buf, last.value, last.ret),
                            spa_json_is_true(buf, last.value, last.ret),
                            spa_json_is_false(buf, last.value, last.ret),
                            spa_json_is_bool(buf, last.value, last.ret)>>]
    /\ UNCHANGED <<buf, iter, n, value, writes, last, ended, tokens>>

\* spa_json_parse_float(value, len, &result) on the span just returned
ParseFloat ==
    /\ HasSpan
    /\ LET r == spa_json_parse_float(buf, last.value, last.ret) IN
       conv' = [NoConv EXCEPT !.op = "parse_float", !.val = last.value, !.len = last.ret,
                  !.ret = r.ret, !.out = r.result]
    /\ UNCHANGED <<buf, iter, n, value, writes, last, ended, tokens>>

\* spa_json_parse_bool(value, len, &result) on the span just returned
ParseBool ==
    /\ HasSpan
    /\ LET r == spa_json_parse_bool(buf, last.value, last.ret) IN
       conv' = [NoConv EXCEPT !.op = "parse_bool", !.val = last.value, !.len = last.ret,
                  !.ret = r.ret, !.out = <<r.result>>]
    /\ UNCHANGED <<buf, iter, n, value, writes, last, ended, tokens>>

\* spa_json_parse_string(value, len, result) on the span just returned
ParseString ==
    /\ HasSpan
    /\ LET r == spa_json_parse_string(buf, last.value, last.ret) IN
       conv' = [NoConv EXCEPT !.op = "parse_string", !.val = last.value, !.len = last.ret,
                  !.ret = r.ret, !.out = r.result]
    /\ UNCHANGED <<buf, iter, n, value, writes, last, ended, tokens>>

\* the callers that walk containers
NextStep ==
    \/ \E c \in Ids : Next(c)
    \/ \E p \in Ids : Enter(p)
    \/ \E p \in Ids, type \in {LBRACKET, LBRACE} : EnterContainer(p, type)

Spec == Init /\ [][NextStep]_vars

\* the callers that fetch, classify and convert the values of one cursor
ConvStep ==
    \/ \E c \in Ids : Next(c)
    \/ \E c \in Ids : GetFloat(c)
    \/ \E c \in Ids : GetBool(c)
    \/ \E c \in Ids, maxlen \in MaxLens : GetString(c, maxlen)
    \/ Classify
    \/ ParseFloat
    \/ ParseBool
    \/ ParseString

SpecConv == Init /\ [][ConvStep]_vars

\* ------------------------------------------------------- runs of next()
\* What a caller sees of one spa_json_next call: the span of a token, or the
\* bare return value when there is none.
Result(o) == IF o.ret > 0 THEN <<o.ret, o.value>> ELSE <<o.ret>>

\* The caller's loop `while (spa_json_next(&it, &value) > 0)`: the results in
\* order, the last one being the one that ended the loop, and the outcome of
\* that last call.
RECURSIVE Drain(_, _, _, _)
Drain(b, it, v, acc) ==
    LET o == spa_json_next(b, it, v, 0) IN
    IF o.ret > 0
    THEN Drain(b, o.it, o.value, Append(acc, Result(o)))
    ELSE [results |-> Append(acc, Result(o)), o |-> o]

\* ---------------------------------------- the accepted grammar (spec, 6.)
\* A reference reading of the grammar, independent of the scanner: a value is
\* an object, an array, a quoted string or a bare run; whitespace, ':' and
\* ',' separate values.  Each operator returns the offset after the construct
\* starting at p, or -1 when there is none.
IsSeparator(c) == c \in {TAB, SP, CR, LF, COLON, COMMA}

IsBareStart(c) == c = MINUS \/ IsLower(c) \/ IsUpper(c) \/ IsDigit(c)

BareBytes == (32..126) \ {TAB, SP, CR, LF, COLON, COMMA, RBRACKET, RBRACE}

Continuation(c) == c >= 128 /\ c <= 191

RECURSIVE RefStringEnd(_, _)
RefStringEnd(b, p) ==
    LET c == ByteAt(b, p) IN
    IF p >= Len(b) THEN -1
    ELSE IF c = QUOTE THEN p + 1
    ELSE IF c = BACKSLASH
    THEN IF p + 1 < Len(b)
            /\ ByteAt(b, p + 1) \in {QUOTE, BACKSLASH, SLASH, 98, 102, 110, 114, 116, 117}
         THEN RefStringEnd(b, p + 2) ELSE -1
    ELSE IF c >= 192 /\ c <= 223
    THEN IF Continuation(ByteAt(b, p + 1)) THEN RefStringEnd(b, p + 2) ELSE -1
    ELSE IF c >= 224 /\ c <= 239
    THEN IF Continuation(ByteAt(b, p + 1)) /\ Continuation(ByteAt(b, p + 2))
         THEN RefStringEnd(b, p + 3) ELSE -1
    ELSE IF c >= 240 /\ c <= 247
    THEN IF Continuation(ByteAt(b, p + 1)) /\ Continuation(ByteAt(b, p + 2))
            /\ Continuation(ByteAt(b, p + 3))
         THEN RefStringEnd(b, p + 4) ELSE -1
    ELSE IF c >= 32 /\ c <= 126 THEN RefStringEnd(b, p + 1)
    ELSE -1

RECURSIVE RefValueEnd(_, _)
RECURSIVE RefMembersEnd(_, _, _)
RefValueEnd(b, p) ==
    LET c == ByteAt(b, p) IN
    IF p >= Len(b) THEN -1
    ELSE IF c = QUOTE THEN RefStringEnd(b, p + 1)
    ELSE IF c = LBRACKET THEN RefMembersEnd(b, p + 1, RBRACKET)
    ELSE IF c = LBRACE THEN RefMembersEnd(b, p + 1, RBRACE)
    ELSE IF IsBareStart(c) THEN SkipWhile(b, p, BareBytes)
    ELSE -1

RefMembersEnd(b, p, closer) ==
    LET q == SkipWhile(b, p, {TAB, SP, CR, LF, COLON, COMMA})
        e == RefValueEnd(b, q)
    IN IF q >= Len(b) THEN -1
       ELSE IF ByteAt(b, q) = closer THEN q + 1
       ELSE IF e = -1 THEN -1
       ELSE RefMembersEnd(b, e, closer)

\* The top-level values of b in source order, as the results next() is to
\* return for them: <<1, offset>> for a container, <<length, offset>> for a
\* string or a bare token.
RECURSIVE RefTopLevel(_, _, _)
RefTopLevel(b, p, acc) ==
    LET q == SkipWhile(b, p, {TAB, SP, CR, LF, COLON, COMMA})
        e == RefValueEnd(b, q)
        tok == IF ByteAt(b, q) \in {LBRACKET, LBRACE} THEN <<1, q>> ELSE <<e - q, q>>
    IN IF q >= Len(b) THEN [ok |-> TRUE, toks |-> acc]
       ELSE IF e = -1 THEN [ok |-> FALSE, toks |-> acc]
       ELSE RefTopLevel(b, e, Append(acc, tok))

WellFormed(b) == RefTopLevel(b, 0, <<>>).ok

TopLevelValues(b) == RefTopLevel(b, 0, <<>>).toks

\* ------------------------------------------------------------------ claims

\* C1: on a well-formed buffer, calling next() on a fresh root cursor until it
\* reports end-of-scope returns every top-level value exactly once, in source
\* order, and never reports malformed input.  Stated where a root that was
\* only ever advanced by next() has reported end-of-scope.
C1_RootScanVisitsAll ==
    (n = 1 /\ last.op = "next" /\ last.id = 1 /\ last.ret = 0 /\ WellFormed(buf))
    => Drain(buf, SPA_JSON_INIT(Len(buf)), NoValue, <<>>).results
         = Append(TopLevelValues(buf), <<0>>)

\* Run B of C2: the parent it, which has just reported a container, is
\* advanced by next() alone.
RunB(b, it, v) == Drain(b, it, v, <<>>).results

\* Run A of C2: the container is entered, the child is drained, the parent
\* (its cur rewritten if the child wrote it back) is then advanced.
RunA(b, it, id, v) ==
    LET child == Drain(b, SPA_JSON_ENTER(it, id), NoValue, <<>>)
        resumed == IF child.o.wb THEN [it EXCEPT !.cur = child.o.wbcur] ELSE it
    IN Drain(b, resumed, v, <<>>).results

\* C2: after a container reported by a parent's next(), the results the
\* parent returns are the same whether the container was entered and the
\* child drained, or never entered.
C2_EnterDrainEqualsSwallow ==
    \A p \in Ids :
        (last.op = "next" /\ last.id = p /\ last.exit = "container")
        => RunA(buf, iter[p], p, value[p]) = RunB(buf, iter[p], value[p])

\* a parent has reported a container whose child returns tokens before its
\* closing delimiter, and the parent returns a token after the container
C2_Witness ==
    \E p \in Ids :
        /\ last.op = "next" /\ last.id = p /\ last.exit = "container"
        /\ LET child == Drain(buf, SPA_JSON_ENTER(iter[p], p), NoValue, <<>>) IN
           /\ Len(child.results) > 1
           /\ child.o.wb
        /\ Len(RunA(buf, iter[p], p, value[p])) > 1

\* the step is a spa_json_next call on cursor c (made by the caller or by a
\* combined fetch or spa_json_enter_container)
CallsNext(c) ==
    /\ last'.id = c
    /\ last'.op \in {"next", "enter_container", "get_float", "get_bool", "get_string"}

\* C3: a bare token at depth 0 that ends at the end of the buffer is returned
\* as a token whose length is the number of bytes since its start, before
\* end-of-scope is reported (`true false` yields `true`, `false`, then
\* end-of-scope).
C3_BareTokenAtBufferEnd ==
    \A c \in Ids :
        (/\ last.op = "next" /\ last.id = c /\ last.exit = "end"
         /\ iter[c].state = __BARE /\ iter[c].depth = 0 /\ value[c] # NoValue)
        => last.ret = iter[c].end - value[c]

\* C4: when the end of the buffer is reached inside an unterminated quoted
\* string (String, Escape or Utf8Continuation), at any depth, next() returns
\* malformed input and never end-of-scope.
C4_UnterminatedStringIsMalformed ==
    \A c \in Ids :
        (/\ last.op = "next" /\ last.id = c /\ last.exit = "end"
         /\ iter[c].state \in {__STRING, __ESC, __UTF8})
        => last.ret < 0

\* C5: over any sequence of next() calls on a child, parent.cur is written at
\* most once.
C5_WriteBackAtMostOnce == \A c \in Ids : writes[c] <= 1

\* C6: a next() call on a child that returns a token or malformed input, or
\* end-of-scope at the end of the buffer, leaves the parent unchanged; the
\* write-back at the child's closing delimiter changes only parent.cur.
C6_ParentFrame ==
    [][\A c \in Ids :
         (CallsNext(c) /\ iter[c].parent # 0)
         => LET p == iter[c].parent IN
            IF last'.exit = "close"
            THEN /\ iter'[p] = [iter[p] EXCEPT !.cur = iter'[c].cur]
                 /\ last'.len = 0
            ELSE iter'[p] = iter[p]]_vars

\* a child has met its closing delimiter and written its parent's cur, the
\* parent still counting the container it reported as open
C6_Witness ==
    \E c \in Ids :
        /\ last.op = "next" /\ last.id = c /\ last.wb
        /\ iter[c].parent # 0
        /\ iter[iter[c].parent].depth = 1
        /\ iter[iter[c].parent].cur = iter[c].cur
        /\ value[c] # NoValue

\* C7: enter_as(cursor, d) succeeds only if its next() call returned a
\* 'container found' span whose first byte is d.  Stated for the calls in
\* which next() assigned the span start.
C7_EnterAsNeedsContainer ==
    (last.op = "enter_container" /\ last.ret > 0 /\ last.value # NoValue)
    => (last.exit = "container" /\ ByteAt(buf, last.value) = last.arg)

\* the bytes of the span (val, len) are exactly lit
SpanIs(b, val, len, lit) == len = Len(lit) /\ SubSeq(b, val + 1, val + len) = lit

\* C8: for every span returned by next(), is-null / is-true / is-false holds
\* iff the span is exactly `null` / `true` / `false`, whatever byte follows
\* it, and is-bool is is-true or is-false.
C8_LiteralClassification ==
    conv.op = "classify"
    => /\ conv.out[5] = SpanIs(buf, conv.val, conv.len, LitNull)
       /\ conv.out[6] = SpanIs(buf, conv.val, conv.len, LitTrue)
       /\ conv.out[7] = SpanIs(buf, conv.val, conv.len, LitFalse)
       /\ conv.out[8] = (conv.out[6] \/ conv.out[7])

\* C9: every failure of next(), of a conversion routine and of a combined
\* fetch is a negative result and every success a positive one; parse-as-number
\* and get-number on a token the numeric parse does not consume entirely
\* return a negative result.
C9_FailuresAreNegative ==
    /\ (last.op = "next" /\ last.exit = "error") => last.ret < 0
    /\ conv.op = "parse_float"
       => IF StrtofEnd(buf, conv.val) = conv.val + conv.len
          THEN conv.ret > 0 ELSE conv.ret < 0
    /\ (last.op = "get_float" /\ last.len > 0)
       => IF StrtofEnd(buf, last.value) = last.value + last.len
          THEN last.ret > 0 ELSE last.ret < 0
    /\ conv.op \in {"parse_bool", "parse_string"} => conv.ret # 0
    /\ last.op \in {"get_float", "get_bool", "get_string"} => last.ret # 0

\* what get-string(maxlen) returns on a fresh cursor over buffer b
GetStringOn(b, maxlen) == spa_json_get_string(b, SPA_JSON_INIT(Len(b)), maxlen, 0).ret

\* a buffer whose first byte is malformed input, and an empty one
BufMalformed == <<35>>
BufEmpty == <<>>

\* C10: get-string reports a capacity failure (maxlen smaller than the
\* token's length) with a result distinguishable from the one it reports for
\* malformed input and for end-of-scope.  Stated for string tokens.
C10_CapacityFailureDistinct ==
    (last.op = "get_string" /\ last.exit = "string" /\ last.len > 0 /\ last.arg < last.len)
    => /\ last.ret # GetStringOn(BufMalformed, last.arg)
       /\ last.ret # GetStringOn(BufEmpty, last.arg)

\* The direct members of the container whose first member starts at or after
\* p, in source order, as the results next() is to return for them.
RECURSIVE RefMembers(_, _, _)
RefMembers(b, p, acc) ==
    LET q == SkipWhile(b, p, {TAB, SP, CR, LF, COLON, COMMA})
        e == RefValueEnd(b, q)
        tok == IF ByteAt(b, q) \in {LBRACKET, LBRACE} THEN <<1, q>> ELSE <<e - q, q>>
    IN IF q >= Len(b) \/ ByteAt(b, q) \in {RBRACKET, RBRACE} \/ e = -1 THEN acc
       ELSE RefMembers(b, e, Append(acc, tok))

\* the results of draining a child entered on the container p has reported
ChildDrain(p) == Drain(buf, SPA_JSON_ENTER(iter[p], p), NoValue, <<>>).results

\* C11: draining a child entered on a (well-formed) container yields exactly
\* the container's direct members in source order, keys and values alike, a
\* nested container as one 'container found' result, followed by
\* end-of-scope: nothing for `{}`; `1`, `2`, `3` for `[1,2,3]`; `"a"`, `1`,
\* `"b"` and one container result for `{"a":1,"b":[1,2]}`.
C11_ChildYieldsMembers ==
    \A p \in Ids :
        (last.op = "next" /\ last.id = p /\ last.exit = "container"
         /\ RefValueEnd(buf, last.value) # -1)
        => /\ ChildDrain(p) = Append(RefMembers(buf, last.value + 1, <<>>), <<0>>)
           /\ (buf = BufEmptyObject /\ last.value = 0) => ChildDrain(p) = << <<0>> >>
           /\ (buf = BufArray /\ last.value = 0)
              => ChildDrain(p) = << <<1, 1>>, <<1, 3>>, <<1, 5>>, <<0>> >>
           /\ (buf = BufObject /\ last.value = 0)
              => ChildDrain(p) = << <<3, 1>>, <<1, 5>>, <<3, 7>>, <<1, 11>>, <<0>> >>

\* a child entered on `{"a":1,"b":[1,2]}` has been advanced up to the closing
\* brace and has reported end-of-scope there
C11_Witness ==
    /\ buf = BufObject
    /\ n = 2 /\ iter[2].parent = 1
    /\ last.op = "next" /\ last.id = 2 /\ last.exit = "close"
    /\ iter[2].cur = 16
    /\ iter[1].cur = 16

\* the operations whose spa_json_next call `last` describes
NextOps == {"next", "enter_container", "get_float", "get_bool", "get_string"}

\* C12: next() returns malformed input whenever the end of the buffer is
\* reached with depth != 0, and end-of-scope when it is reached in Struct
\* state with depth == 0.
C12_EndOfBuffer ==
    \A c \in Ids :
        (last.op \in NextOps /\ last.id = c /\ last.exit = "end")
        => /\ iter[c].depth # 0 => last.len < 0
           /\ (iter[c].depth = 0 /\ iter[c].state = __STRUCT) => last.len = 0

\* a cursor has run off the end of the buffer inside two unclosed containers
C12_Witness ==
    \E c \in Ids :
        /\ last.op = "next" /\ last.id = c /\ last.exit = "end"
        /\ iter[c].depth = 2 /\ iter[c].cur = iter[c].end
        /\ last.ret = -1

\* C13: under any interleaving of next() calls on a cursor, its children and
\* its parent, every cursor has cur <= end, and no step (the cursor's own
\* scanning or a child's write-back into it) decreases a cursor's cur.
C13_CurMonotonic ==
    [][\A c \in Ids :
         c <= n => (iter'[c].cur <= iter'[c].end /\ iter'[c].cur >= iter[c].cur)]_vars

\* C14: enter(cursor) creates a child with child.cur = cursor.cur, child.end =
\* cursor.end, child.parent = cursor, scan state None and depth 0, and leaves
\* every field of cursor unchanged.
C14_EnterFrame ==
    [][(last'.op = "enter" /\ n' = n + 1)
       => LET p == last'.id IN
          /\ iter'[n'].cur = iter[p].cur
          /\ iter'[n'].end = iter[p].end
          /\ iter'[n'].parent = p
          /\ iter'[n'].state = __NONE
          /\ iter'[n'].depth = 0
          /\ iter'[p] = iter[p]]_vars

\* a cursor that has reported a container and counts it as open has just been
\* entered
C14_Witness ==
    /\ last.op = "enter"
    /\ iter[last.id].state = __STRUCT /\ iter[last.id].depth = 1 /\ iter[last.id].cur > 1
    /\ iter[n].parent = last.id
    /\ iter[n].cur = iter[last.id].cur

\* C15: parse-as-bool succeeds with value true iff the span is exactly
\* `true`, succeeds with value false iff it is exactly `false`, and fails
\* for every other span; get-bool fails when next() yields no token and
\* otherwise returns what parse-as-bool returns for the token.
C15_ParseBool ==
    /\ conv.op = "parse_bool"
       => IF SpanIs(buf, conv.val, conv.len, LitTrue)
          THEN conv.ret > 0 /\ conv.out = <<TRUE>>
          ELSE IF SpanIs(buf, conv.val, conv.len, LitFalse)
          THEN conv.ret > 0 /\ conv.out = <<FALSE>>
          ELSE conv.ret < 0
    /\ last.op = "get_bool"
       => IF last.len <= 0 THEN last.ret < 0
          ELSE /\ last.ret = spa_json_parse_bool(buf, last.value, last.len).ret
               /\ last.ret > 0
                  => last.out = <<spa_json_parse_bool(buf, last.value, last.len).result>>

\* The text t between the quotes with each escape pair replaced by one byte:
\* LF, CR, BS, TAB for n, r, b, t and the byte itself for any other.
RECURSIVE RefUnescape(_)
RefUnescape(t) ==
    IF t = <<>> THEN <<>>
    ELSE IF Head(t) = BACKSLASH /\ Len(t) >= 2
    THEN LET c == t[2]
             d == CASE c = 110 -> 10 [] c = 114 -> 13 [] c = 98 -> 8 [] c = 116 -> 9
                    [] OTHER -> c
         IN <<d>> \o RefUnescape(SubSeq(t, 3, Len(t)))
    ELSE <<Head(t)>> \o RefUnescape(Tail(t))

\* C16: for every string span returned by next(), parse-as-string succeeds
\* and writes the bytes between the quotes with `\n`, `\r`, `\b`, `\t`
\* replaced by LF, CR, BS, TAB and every other escape by the byte after the
\* backslash (the four characters after `\u` copied verbatim), followed by a
\* terminator; for a span that is not is-string it fails and writes nothing.
C16_ParseStringDecodes ==
    conv.op = "parse_string"
    => /\ last.exit = "string"
          => /\ conv.ret > 0
             /\ conv.out = RefUnescape(SubSeq(buf, conv.val + 2, conv.val + conv.len - 1))
                             \o <<0>>
       /\ ~(conv.len > 1 /\ ByteAt(buf, conv.val) = QUOTE)
          => (conv.ret < 0 /\ conv.out = <<>>)
       /\ (buf = BufUnicode /\ conv.val = 0)
          => conv.out = <<117, 48, 48, 101, 57, 9, 13, 8, 102, 47, 92, 0>>
       /\ (buf = BufEscapes /\ conv.val = 0)
          => conv.out = <<97, 10, 98, 34, 99, 0>>

\* the string with a `\u` escape and the `\t \r \b \f \/ \\` escapes has been
\* decoded
C16_Witness ==
    /\ conv.op = "parse_string" /\ conv.ret = 1
    /\ buf = BufUnicode /\ conv.val = 0 /\ conv.len = 20
    /\ Len(conv.out) = 12

\* C17: for a string span of length len returned by next(), parse-as-string
\* writes at most len - 1 bytes, terminator included, and reads nothing past
\* the closing quote; get-string(maxlen) never writes more than maxlen bytes,
\* and fails without writing when maxlen is smaller than the token length.
C17_StringBounds ==
    /\ (conv.op = "parse_string" /\ last.exit = "string")
       => /\ Len(conv.out) <= conv.len - 1
          /\ ParseStringReads(buf, conv.val + 1, conv.val + conv.len - 1, conv.val)
               <= conv.val + conv.len - 1
    /\ last.op = "get_string"
       => /\ Len(last.out) <= last.arg
          /\ (last.len > 0 /\ last.arg < last.len) => (last.ret < 0 /\ last.out = <<>>)

\* get-string has filled a caller's storage that is exactly as large as the
\* string token
C17_Witness ==
    /\ last.op = "get_string" /\ last.exit = "string" /\ last.ret = 1
    /\ last.arg = last.len
    /\ Len(last.out) = last.len - 1

\* the offset a write-back by cursor c has just left in its parent's cur
Written(c) == iter[iter[c].parent].cur

\* C18 as stated: when a child meets its closing delimiter at depth 0 and
\* returns end-of-scope, the value written to parent.cur is the offset
\* immediately after that delimiter (the child's position past it).
C18_WritesPastDelimiter ==
    \A c \in Ids :
        (last.op \in NextOps /\ last.id = c /\ last.wb)
        => /\ Written(c) > 0
           /\ ByteAt(buf, Written(c) - 1) \in {RBRACKET, RBRACE}
           /\ Written(c) = iter[c].cur

\* C18 amended: the value written to parent.cur is the offset of the closing
\* delimiter itself, where the child's cur stays.
C18_WritesDelimiterOffset ==
    \A c \in Ids :
        (last.op \in NextOps /\ last.id = c /\ last.wb)
        => /\ Written(c) < iter[c].end
           /\ ByteAt(buf, Written(c)) \in {RBRACKET, RBRACE}
           /\ Written(c) = iter[c].cur
           /\ last.len = 0

\* the child entered on `[1,2,3]` has met the `]` at offset 6 and written 6
\* into the root's cur
C18_Witness ==
    /\ buf = BufArray
    /\ last.op = "next" /\ last.id = 2 /\ last.wb
    /\ iter[2].parent = 1
    /\ iter[1].cur = 6

\* What follows offset e in the scope e lies in: the result next() is to
\* return for the next value, <<0>> when a closing delimiter or the end of
\* the buffer comes first, <<-1>> when what follows is not a value of the
\* grammar.
RefSibling(b, e) ==
    LET q == SkipWhile(b, e, {TAB, SP, CR, LF, COLON, COMMA})
        v == RefValueEnd(b, q)
    IN IF q >= Len(b) \/ ByteAt(b, q) \in {RBRACKET, RBRACE} THEN <<0>>
       ELSE IF v = -1 THEN <<-1>>
       ELSE IF ByteAt(b, q) \in {LBRACKET, LBRACE} THEN <<1, q>>
       ELSE <<v - q, q>>

RECURSIVE Passes(_, _, _, _, _)
Passes(b, it, utf8_remain, v, acc) ==
    IF ~(it.cur < it.end) THEN acc
    ELSE LET s == Step(b, it, utf8_remain, v, 0) IN
         IF s.done THEN Append(acc, [it |-> it, s |-> s])
         ELSE Passes(b, s.it, s.utf8_remain, s.value, Append(acc, [it |-> it, s |-> s]))

\* the passes of the call a caller would make next on cursor c
NextPasses(c) == Passes(buf, iter[c], 0, value[c], <<>>)

\* C20: in String, Escape or Utf8Continuation state depth never changes:
\* `[`, `]`, `{`, `}` inside a quoted string change neither depth nor the
\* state, and an escaped quote does not end the string.  A closing quote at
\* depth > 0 returns to Struct and the scan continues without returning a
\* token; a closing quote at depth 0 returns the span including both quotes
\* with cur one past the closing quote.
C20_StringsKeepDepth ==
    \A c \in Ids :
        c <= n =>
        LET T == NextPasses(c) IN
        \A k \in DOMAIN T :
            LET x == T[k]
                byte == ByteAt(buf, x.it.cur)
                opened == \E j \in 1..(k - 1) :
                              T[j].it.state = __STRUCT /\ T[j].s.it.state = __STRING
            IN
            x.it.state \in {__STRING, __ESC, __UTF8}
            => /\ x.s.it.depth = x.it.depth
               /\ (x.it.state = __STRING /\ byte \in {LBRACKET, RBRACKET, LBRACE, RBRACE})
                  => (~x.s.done /\ x.s.it.state = __STRING)
               /\ (x.it.state = __ESC /\ byte = QUOTE)
                  => (~x.s.done /\ x.s.it.state = __STRING)
               /\ (x.it.state = __STRING /\ byte = QUOTE /\ x.it.depth > 0)
                  => (~x.s.done /\ x.s.it.state = __STRUCT /\ x.s.it.cur = x.it.cur + 1)
               /\ (x.it.state = __STRING /\ byte = QUOTE /\ x.it.depth = 0)
                  => /\ x.s.done /\ x.s.o.exit = "string"
                     /\ x.s.o.it.cur = x.it.cur + 1
                     /\ x.s.o.it.state = __STRUCT
                     /\ opened => /\ x.s.o.ret = x.it.cur + 1 - x.s.o.value
                                  /\ x.s.o.ret >= 2
                                  /\ ByteAt(buf, x.s.o.value) = QUOTE
                                  /\ ByteAt(buf, x.s.o.value + x.s.o.ret - 1) = QUOTE

\* the root over `["]\"[","x"] "}{" ` has skipped the container, whose first
\* string holds brackets and an escaped quote, and has returned the string
\* `"}{"` at depth 0
C20_Witness ==
    /\ buf = BufBrackets
    /\ n = 1
    /\ last.op = "next" /\ last.id = 1 /\ last.exit = "string"
    /\ last.value = 13 /\ last.ret = 4
    /\ iter[1].depth = 0 /\ iter[1].cur = 17

\* C21: inside a quoted string a lead byte in 0xC0-0xDF / 0xE0-0xEF /
\* 0xF0-0xF7 is followed by exactly 1 / 2 / 3 bytes in 0x80-0xBF, after which
\* the scan is back in String state; a following byte outside 0x80-0xBF makes
\* the call return malformed input, and so does a byte in 0x80-0xBF or
\* 0xF8-0xFF, a control byte below 32 or the byte 127 met in String state.
C21_Utf8Sequences ==
    \A c \in Ids :
        c <= n =>
        LET T == NextPasses(c)
            Cont(y) == y >= 128 /\ y <= 191
            Follows(y) == IF y >= 192 /\ y <= 223 THEN 1
                          ELSE IF y >= 224 /\ y <= 239 THEN 2
                          ELSE IF y >= 240 /\ y <= 247 THEN 3
                          ELSE 0
            Malformed(x) == x.s.done /\ x.s.o.ret = -1 /\ x.s.o.it = x.it
        IN
        \A k \in DOMAIN T :
            LET x == T[k]
                at == x.it.cur
                byte == ByteAt(buf, at)
                N == Follows(byte)
            IN
            /\ (x.it.state = __STRING /\ N > 0)
               => /\ ~x.s.done /\ x.s.it.state = __UTF8 /\ x.s.it.cur = at + 1
                  /\ \A j \in 1..N :
                       (/\ at + j < x.it.end
                        /\ \A i \in 1..(j - 1) : Cont(ByteAt(buf, at + i)))
                       => /\ k + j \in DOMAIN T
                          /\ T[k + j].it.cur = at + j
                          /\ T[k + j].it.state = __UTF8
                          /\ T[k + j].it.depth = x.it.depth
                          /\ IF Cont(ByteAt(buf, at + j))
                             THEN /\ ~T[k + j].s.done
                                  /\ T[k + j].s.it.cur = at + j + 1
                                  /\ T[k + j].s.it.state
                                       = (IF j = N THEN __STRING ELSE __UTF8)
                             ELSE Malformed(T[k + j])
            /\ (/\ x.it.state = __STRING
                /\ (Cont(byte) \/ (byte >= 248 /\ byte <= 255) \/ byte < 32 \/ byte = 127))
               => Malformed(x)
            /\ (x.it.state = __UTF8 /\ ~Cont(byte)) => Malformed(x)

\* the root over BufUtf8 has returned the first string, whose three sequences
\* are complete, and then malformed input at the letter A that cuts the
\* 3-byte sequence of the second string short
C21_Witness ==
    /\ buf = BufUtf8
    /\ n = 1
    /\ last.op = "next" /\ last.id = 1 /\ last.exit = "error" /\ last.ret = -1
    /\ iter[1].state = __UTF8 /\ iter[1].cur = 15
    /\ value[1] = 12

\* C22: a cursor's depth is 0 before its first next() call (it is 0 when the
\* cursor is constructed and only the cursor's own next() calls change it) and
\* 0 whenever next() has just returned end-of-scope; depth is never
\* decremented when it is 0; and depth is at most 1 whenever next() has just
\* returned a token, 'container found' or end-of-scope.
C22_DepthDiscipline ==
    /\ \A c \in Ids : iter[c].depth = 0
    /\ [](\A c \in Ids :
            c <= n =>
            /\ iter[c].depth >= 0
            /\ LET T == NextPasses(c) IN
               \A k \in DOMAIN T :
                   T[k].s.it.depth < T[k].it.depth
                   => (T[k].it.depth > 0 /\ T[k].s.it.depth = T[k].it.depth - 1))
    /\ [][\A c \in Ids :
            c <= n' =>
            /\ c > n => iter'[c].depth = 0
            /\ (c <= n /\ ~CallsNext(c)) => iter'[c].depth = iter[c].depth
            /\ CallsNext(c)
               => /\ last'.len = 0 => iter'[c].depth = 0
                  /\ last'.len >= 0 => iter'[c].depth <= 1
                  /\ last'.exit = "container" => (last'.len = 1 /\ iter'[c].depth = 1)
                  /\ last'.exit \in {"bare", "string", "close"} => iter'[c].depth = 0]_vars

\* a child over `[[]]`, entered after the outer bracket, has counted the
\* inner container up and down again, and has returned end-of-scope at the
\* outer closing bracket with depth 0
C22_Witness ==
    \E c \in Ids :
        /\ c > 1 /\ c <= n
        /\ last.op = "next" /\ last.id = c /\ last.exit = "close" /\ last.ret = 0
        /\ iter[c].depth = 0 /\ iter[c].cur = 3 /\ iter[c].state = __STRUCT
        /\ buf = <<LBRACKET, LBRACKET, RBRACKET, RBRACKET>>

\* the pointers a caller may pass as `value` to its next call on a cursor
\* whose last call left *value at v: the same variable, or a fresh one
Pointers(v) == {v, NoValue}

\* C23: malformed input is sticky: a next() call that returns malformed input
\* (a negative result) leaves cur at the offending byte, and with no
\* write-back from a child in between, the next call on the same cursor (and
\* so every later one) returns malformed input again with cur, scan state and
\* depth unchanged.
C23_MalformedSticky ==
    \A c \in Ids :
        c <= n =>
        \A g \in Garbage(iter[c], value[c]) :
            LET o == spa_json_next(buf, iter[c], value[c], g)
                T == NextPasses(c)
            IN
            o.ret < 0
            => /\ (T # <<>> /\ T[Len(T)].s.done) => o.it.cur = T[Len(T)].it.cur
               /\ \A v \in Pointers(o.value), g2 \in GarbageLens :
                    LET o2 == spa_json_next(buf, o.it, v, g2) IN
                    /\ o2.ret < 0
                    /\ o2.it = o.it

\* C24: end-of-scope is sticky: once next() on a cursor has returned
\* end-of-scope, every later next() call on that cursor returns end-of-scope
\* again and leaves the cursor's cur, scan state and depth unchanged (so a
\* child returns no token after its own closing delimiter).
C24_EndOfScopeSticky ==
    [][\A c \in Ids :
         (c <= n /\ ended[c] /\ CallsNext(c))
         => (last'.len = 0 /\ iter'[c] = iter[c])]_vars

\* C25: every next() call terminates: a byte is examined again at most once,
\* after a None->Struct or Bare->Struct transition, and otherwise each pass
\* moves on by one byte; every call that returns a token or 'container found'
\* advances cur by at least one byte; so on a buffer of n bytes a cursor
\* returns at most n tokens before it reaches end-of-scope or malformed input.
C25_FiniteTokenStream ==
    /\ [](\A c \in Ids :
            c <= n =>
            /\ tokens[c] <= Len(buf)
            /\ LET T == NextPasses(c) IN
               /\ Len(T) <= 2 * (iter[c].end - iter[c].cur)
               /\ \A k \in DOMAIN T :
                    k + 1 \in DOMAIN T
                    => IF T[k + 1].it.cur = T[k].it.cur
                       THEN /\ T[k].it.state \in {__NONE, __BARE}
                            /\ T[k + 1].it.state = __STRUCT
                            /\ k + 2 \in DOMAIN T => T[k + 2].it.cur = T[k].it.cur + 1
                       ELSE T[k + 1].it.cur = T[k].it.cur + 1)
    /\ [][\A c \in Ids :
            (c <= n /\ CallsNext(c) /\ last'.len > 0) => iter'[c].cur > iter[c].cur]_vars

====
